---- MODULE Spec2Model ----
(***************************************************************************)
(* State-machine model of pydicom/values.py: the primitive converters, the *)
(* converters registry, convert_value with its lenient-mode retry over     *)
(* convert_retry_VR_order, and convert_value_num_str.                      *)
(*                                                                         *)
(* Byte strings and text are sequences of character codes (0..255).        *)
(* A converted value is a record [kind, type, items]:                      *)
(*   kind  "scalar" (one item), "MultiValue" (pydicom container) or        *)
(*         "list" (python list);                                           *)
(*   type  the python type of the item(s);                                 *)
(*   items the item(s), each a sequence of codes.  A number is kept as its *)
(*         bytes in most-significant-first order, a tag as group bytes     *)
(*         followed by element bytes, both most-significant first.         *)
(* The outcome of a call is [exc, value, msg, how]: exc = "none" for a     *)
(* normal return, otherwise the class of the exception raised.             *)
(***************************************************************************)
EXTENDS Integers, Sequences, FiniteSets, TLC

VARIABLES VR, raw_data_element, encoding, config, in_py2, collab,
          stack, result, trace, nsteps

vars == <<VR, raw_data_element, encoding, config, in_py2, collab,
          stack, result, trace, nsteps>>

\* ------------------------------------------------------------- bounds
\* longest payload handed to convert_value
MaxLen == 4
\* longest payload handed to a primitive converter directly
MaxConvLen == 8
\* longest text handed to convert_value_num_str
MaxStrLen == 3
\* deepest nesting of convert_value frames the model follows
MaxDepth == 6

\* ------------------------------------------------- values and outcomes
NoValue == [kind |-> "none", type |-> "none", items |-> <<>>]

Scalar(type, item) == [kind |-> "scalar", type |-> type, items |-> <<item>>]

Ok(v) == [exc |-> "none", value |-> v, msg |-> <<>>, how |-> "primary"]

Raise(e) == [exc |-> e, value |-> NoValue, msg |-> <<>>, how |-> "raised"]

RaiseMsg(e, m) == [exc |-> e, value |-> NoValue, msg |-> m, how |-> "raised"]

Pending == [exc |-> "pending", value |-> NoValue, msg |-> <<>>, how |-> "pending"]

\* python: UnicodeDecodeError is a subclass of ValueError, so `except
\* ValueError` catches both; struct.error, LookupError, TypeError,
\* KeyError and NotImplementedError are not.
IsValueError(e) == e \in {"ValueError", "UnicodeDecodeError"}

\* ---------------------------------------------------- python builtins
IsSpace(c) == c \in {9, 10, 11, 12, 13, 32}

RECURSIVE rstrip(_)
rstrip(s) ==
    IF s = <<>> THEN s
    ELSE IF IsSpace(s[Len(s)]) THEN rstrip(SubSeq(s, 1, Len(s) - 1))
    ELSE s

RECURSIVE lstrip(_)
lstrip(s) ==
    IF s = <<>> THEN s
    ELSE IF IsSpace(s[1]) THEN lstrip(SubSeq(s, 2, Len(s)))
    ELSE s

strip(s) == lstrip(rstrip(s))

endswith(s, c) == s # <<>> /\ s[Len(s)] = c

RECURSIVE split(_, _)
split(s, d) ==
    IF \A i \in 1..Len(s) : s[i] # d THEN <<s>>
    ELSE LET k == CHOOSE i \in 1..Len(s) :
                      s[i] = d /\ \A j \in 1..(i - 1) : s[j] # d
         IN <<SubSeq(s, 1, k - 1)>> \o split(SubSeq(s, k + 1, Len(s)), d)

Reverse(s) == [i \in 1..Len(s) |-> s[Len(s) + 1 - i]]

\* bytes.decode(codec): iso8859 maps every byte; utf-8 rejects the bytes
\* used here above 127; an unknown codec name raises LookupError.
codec_decode(byte_string, codec) ==
    IF codec = "iso8859" THEN [exc |-> "none", text |-> byte_string]
    ELSE IF codec = "utf-8"
         THEN IF \E i \in 1..Len(byte_string) : byte_string[i] > 127
              THEN [exc |-> "UnicodeDecodeError", text |-> <<>>]
              ELSE [exc |-> "none", text |-> byte_string]
    ELSE [exc |-> "LookupError", text |-> <<>>]

\* `if not in_py2: byte_string = byte_string.decode(encoding)`
TextType == IF in_py2 THEN "bytes" ELSE "str"

decode(byte_string, codec) ==
    IF in_py2 THEN [exc |-> "none", text |-> byte_string]
    ELSE codec_decode(byte_string, codec)

default_encoding == "iso8859"

\* struct.calcsize("=" + struct_format)
calcsize(struct_format) ==
    CASE struct_format \in {"H", "h"} -> 2
      [] struct_format \in {"L", "l", "f"} -> 4
      [] struct_format = "d" -> 8
      [] OTHER -> 1

\* struct.unpack("%c%u%c" % (endianChar, count, fmt), byte_string):
\* the buffer must hold exactly count * width bytes, else struct.error.
unpack(is_little_endian, count, struct_format, byte_string) ==
    LET w == calcsize(struct_format)
        word(k) == LET raw == SubSeq(byte_string, (k - 1) * w + 1, k * w)
                   IN IF is_little_endian THEN Reverse(raw) ELSE raw
    IN IF Len(byte_string) # count * w
       THEN [exc |-> "struct.error", items |-> <<>>]
       ELSE [exc |-> "none", items |-> [k \in 1..count |-> word(k)]]

\* python slice s[a:b] (0-based, half open, clamped to the string)
PySlice(s, a, b) == SubSeq(s, a + 1, IF b < Len(s) THEN b ELSE Len(s))

\* -------------------------------------- collaborators outside values.py
\* pydicom.charset.text_VRs
text_VRs == {"SH", "LO", "ST", "LT", "UC", "UT"}

IsDigit(c) == c \in 48..57

IsSign(c) == c \in {43, 45}

RECURSIVE DigitsValue(_)
DigitsValue(s) ==
    IF s = <<>> THEN 0
    ELSE 10 * DigitsValue(SubSeq(s, 1, Len(s) - 1)) + (s[Len(s)] - 48)

\* int(text): optional sign then digits, surrounding whitespace ignored
IsIntText(text) ==
    LET t == strip(text)
        d == IF t # <<>> /\ IsSign(t[1]) THEN SubSeq(t, 2, Len(t)) ELSE t
    IN d # <<>> /\ \A i \in 1..Len(d) : IsDigit(d[i])

IntItem(text) ==
    LET t == strip(text)
        neg == t # <<>> /\ t[1] = 45
        d == IF t # <<>> /\ IsSign(t[1]) THEN SubSeq(t, 2, Len(t)) ELSE t
        n == DigitsValue(d)
    IN <<IF neg /\ n # 0 THEN 1 ELSE 0, n>>

FloatStep(st, c) ==
    CASE st = "start" /\ IsDigit(c) -> "int"
      [] st = "start" /\ IsSign(c) -> "sign"
      [] st \in {"start", "sign"} /\ c = 46 -> "dot0"
      [] st = "sign" /\ IsDigit(c) -> "int"
      [] st = "int" /\ IsDigit(c) -> "int"
      [] st = "int" /\ c = 46 -> "frac"
      [] st \in {"dot0", "frac"} /\ IsDigit(c) -> "frac"
      [] st \in {"int", "frac"} /\ c \in {69, 101} -> "e"
      [] st = "e" /\ IsSign(c) -> "esign"
      [] st \in {"e", "esign", "exp"} /\ IsDigit(c) -> "exp"
      [] OTHER -> "bad"

RECURSIVE FloatRun(_, _)
FloatRun(s, st) ==
    IF s = <<>> THEN st ELSE FloatRun(SubSeq(s, 2, Len(s)), FloatStep(st, s[1]))

\* float(text): decimal literal with optional fraction and exponent
IsFloatText(text) == FloatRun(strip(text), "start") \in {"int", "frac", "exp"}

\* valtype(x): the element constructors MultiString and MultiValue apply.
\* str is the identity; IS is int() (blank text stays the empty string);
\* DSclass is float(); the outcome of the other constructors on this
\* element (UID, DA, TM, DT, PersonName) is the collaborator's: collab.
Construct(valtype, x) ==
    CASE valtype = "str" -> [exc |-> "none", item |-> x]
      [] valtype = "IS" ->
            IF strip(x) = <<>> THEN [exc |-> "none", item |-> <<>>]
            ELSE IF IsIntText(x) THEN [exc |-> "none", item |-> IntItem(x)]
            ELSE [exc |-> "ValueError", item |-> <<>>]
      [] valtype = "DS" ->
            IF IsFloatText(x) THEN [exc |-> "none", item |-> strip(x)]
            ELSE [exc |-> "ValueError", item |-> <<>>]
      [] OTHER -> [exc |-> collab, item |-> x]

ItemType(valtype) == IF valtype = "str" THEN TextType ELSE valtype

\* pydicom.multival.MultiValue(type_constructor, iterable): every element is
\* constructed when the container is built; for IS and DS an empty element
\* is kept as the empty string.  The first failing element raises.
MultiValue(valtype, parts) ==
    LET one(x) == IF valtype \in {"IS", "DS"} /\ x = <<>>
                  THEN [exc |-> "none", item |-> <<>>]
                  ELSE Construct(valtype, x)
        built == [i \in 1..Len(parts) |-> one(parts[i])]
        bad == {i \in 1..Len(parts) : built[i].exc # "none"}
    IN IF bad # {}
       THEN Raise(built[CHOOSE i \in bad : \A j \in bad : i <= j].exc)
       ELSE Ok([kind |-> "MultiValue", type |-> ItemType(valtype),
                items |-> [i \in 1..Len(parts) |-> built[i].item]])

\* A scalar built by valtype; a blank IS is the (text) empty string.
ScalarOf(valtype, x) ==
    LET c == Construct(valtype, x)
    IN IF c.exc # "none" THEN Raise(c.exc)
       ELSE IF valtype = "IS" /\ c.item = <<>> THEN Ok(Scalar(TextType, <<>>))
       ELSE Ok(Scalar(ItemType(valtype), c.item))

\* pydicom.valuerep.MultiString(val, valtype): one trailing space or NUL is
\* removed, the text is split on the backslash; one part gives the scalar
\* (an empty text stays the empty string), several a MultiValue.
MultiString(val, valtype) ==
    LET v == IF endswith(val, 32) \/ endswith(val, 0)
             THEN SubSeq(val, 1, Len(val) - 1) ELSE val
        splitup == split(v, 92)
    IN IF Len(splitup) = 1
       THEN IF v = <<>> THEN Ok(Scalar(TextType, <<>>)) ELSE ScalarOf(valtype, v)
       ELSE MultiValue(valtype, splitup)

\* pydicom.filereader.read_sequence: its outcome on this element is collab
read_sequence(byte_string) ==
    IF collab = "none" THEN Ok(Scalar("Sequence", byte_string)) ELSE Raise(collab)

\* ------------------------------------------------ primitive converters
\* An outcome of decode() that failed, as the converter's outcome
DecodeFailed(d) == Raise(d.exc)

convert_tag(byte_string, is_little_endian, offset) ==
    LET u == unpack(is_little_endian, 2, "H", PySlice(byte_string, offset, offset + 4))
    IN IF u.exc # "none" THEN [exc |-> u.exc, item |-> <<>>]
       ELSE [exc |-> "none", item |-> u.items[1] \o u.items[2]]

convert_AE_string(byte_string, is_little_endian, struct_format, codec) ==
    LET d == decode(byte_string, codec)
    IN IF d.exc # "none" THEN DecodeFailed(d)
       ELSE Ok(Scalar(TextType, strip(d.text)))

convert_ATvalue(byte_string, is_little_endian, struct_format) ==
    LET length == Len(byte_string)
        n == (length + 3) \div 4
        tags == [k \in 1..n |-> convert_tag(byte_string, is_little_endian, 4 * (k - 1))]
        bad == {k \in 1..n : tags[k].exc # "none"}
    IN IF length = 4
       THEN LET t == convert_tag(byte_string, is_little_endian, 0)
            IN IF t.exc # "none" THEN Raise(t.exc) ELSE Ok(Scalar("Tag", t.item))
       ELSE IF bad # {} THEN Raise(tags[CHOOSE k \in bad : \A j \in bad : k <= j].exc)
       ELSE Ok([kind |-> "MultiValue", type |-> "Tag",
                items |-> [k \in 1..n |-> tags[k].item]])


\* the single-value case left out: one value comes back as a list
convert_numbers_nocollapse(byte_string, is_little_endian, struct_format) ==
    LET bytes_per_value == calcsize(struct_format)
        length == Len(byte_string)
        value == unpack(is_little_endian, length \div bytes_per_value,
                        struct_format, byte_string)
    IN IF value.exc # "none" THEN Raise(value.exc)
       ELSE IF Len(value.items) = 0 THEN Ok(Scalar(TextType, <<>>))
       ELSE Ok([kind |-> "list", type |-> struct_format, items |-> value.items])

convert_numbers(byte_string, is_little_endian, struct_format) ==
    LET bytes_per_value == calcsize(struct_format)
        length == Len(byte_string)
        value == unpack(is_little_endian, length \div bytes_per_value,
                        struct_format, byte_string)
    IN IF value.exc # "none" THEN Raise(value.exc)
       ELSE IF Len(value.items) = 0 THEN Ok(Scalar(TextType, <<>>))
       ELSE IF Len(value.items) = 1 THEN Ok(Scalar(struct_format, value.items[1]))
       ELSE Ok([kind |-> "list", type |-> struct_format, items |-> value.items])


\* the bytes swapped for big-endian data
convert_OBvalue_swap(byte_string, is_little_endian, struct_format) ==
    Ok(Scalar("bytes", IF is_little_endian THEN byte_string ELSE Reverse(byte_string)))

convert_OBvalue(byte_string, is_little_endian, struct_format) ==
    Ok(Scalar("bytes", byte_string))

convert_OWvalue(byte_string, is_little_endian, struct_format) ==
    convert_OBvalue(byte_string, is_little_endian, "")

convert_UN(byte_string, is_little_endian, struct_format) ==
    Ok(Scalar("bytes", byte_string))

convert_string(byte_string, is_little_endian, struct_format, codec) ==
    LET d == decode(byte_string, codec)
    IN IF d.exc # "none" THEN DecodeFailed(d) ELSE MultiString(d.text, "str")

convert_single_string(byte_string, is_little_endian, struct_format, codec) ==
    LET d == decode(byte_string, codec)
    IN IF d.exc # "none" THEN DecodeFailed(d)
       ELSE Ok(Scalar(TextType, IF endswith(d.text, 32)
                                THEN SubSeq(d.text, 1, Len(d.text) - 1)
                                ELSE d.text))

convert_UR_string(byte_string, is_little_endian, struct_format, codec) ==
    LET d == decode(byte_string, codec)
    IN IF d.exc # "none" THEN DecodeFailed(d)
       ELSE Ok(Scalar(TextType, rstrip(d.text)))

convert_UI(byte_string, is_little_endian, struct_format) ==
    LET d == decode(byte_string, default_encoding)
        t == IF endswith(d.text, 0) THEN SubSeq(d.text, 1, Len(d.text) - 1) ELSE d.text
    IN IF d.exc # "none" THEN DecodeFailed(d) ELSE MultiString(t, "UID")

convert_IS_string(byte_string, is_little_endian, struct_format) ==
    LET d == decode(byte_string, default_encoding)
    IN IF d.exc # "none" THEN DecodeFailed(d) ELSE MultiString(d.text, "IS")

convert_DS_string(byte_string, is_little_endian, struct_format) ==
    LET d == decode(byte_string, default_encoding)
    IN IF d.exc # "none" THEN DecodeFailed(d) ELSE MultiString(strip(d.text), "DS")

\* convert_DA_string, convert_DT_string and convert_TM_string share one
\* shape: valtype is "DA", "DT" or "TM"
convert_datetime_string(valtype, byte_string, is_little_endian, struct_format) ==
    IF config.datetime_conversion
    THEN LET d == decode(byte_string, default_encoding)
             splitup == split(d.text, 92)
             trimmed == [i \in 1..Len(splitup) |-> rstrip(splitup[i])]
         IN IF d.exc # "none" THEN DecodeFailed(d)
            ELSE IF Len(splitup) = 1 THEN ScalarOf(valtype, trimmed[1])
            ELSE MultiValue(valtype, trimmed)
    ELSE convert_string(byte_string, is_little_endian, struct_format, default_encoding)

convert_DA_string(byte_string, is_little_endian, struct_format) ==
    convert_datetime_string("DA", byte_string, is_little_endian, struct_format)

convert_DT_string(byte_string, is_little_endian, struct_format) ==
    convert_datetime_string("DT", byte_string, is_little_endian, struct_format)

convert_TM_string(byte_string, is_little_endian, struct_format) ==
    convert_datetime_string("TM", byte_string, is_little_endian, struct_format)

convert_PN(byte_string, is_little_endian, struct_format, codecs) ==
    LET b == IF endswith(byte_string, 32) \/ endswith(byte_string, 0)
             THEN SubSeq(byte_string, 1, Len(byte_string) - 1)
             ELSE byte_string
        splitup == split(b, 92)
    IN IF Len(splitup) = 1 THEN ScalarOf("PersonName", splitup[1])
       ELSE MultiValue("PersonName", splitup)

convert_SQ(byte_string, is_implicit_VR, is_little_endian, codecs, offset) ==
    read_sequence(byte_string)

\* ------------------------------------------- registry and retry order
convert_retry_VR_order ==
    <<"SH", "UL", "SL", "US", "SS", "FL", "FD", "OF", "OB", "UI", "DA", "TM",
      "PN", "IS", "DS", "LT", "SQ", "UN", "AT", "OW", "DT", "UT">>

Entry(f, fmt) == [converter |-> f, num_format |-> fmt]

converters ==
    ("UL" :> Entry("convert_numbers", "L")) @@
    ("SL" :> Entry("convert_numbers", "l")) @@
    ("US" :> Entry("convert_numbers", "H")) @@
    ("SS" :> Entry("convert_numbers", "h")) @@
    ("FL" :> Entry("convert_numbers", "f")) @@
    ("FD" :> Entry("convert_numbers", "d")) @@
    ("OF" :> Entry("convert_numbers", "f")) @@
    ("OB" :> Entry("convert_OBvalue", "")) @@
    ("OD" :> Entry("convert_OBvalue", "")) @@
    ("OL" :> Entry("convert_OBvalue", "")) @@
    ("UI" :> Entry("convert_UI", "")) @@
    ("SH" :> Entry("convert_string", "")) @@
    ("DA" :> Entry("convert_DA_string", "")) @@
    ("TM" :> Entry("convert_TM_string", "")) @@
    ("CS" :> Entry("convert_string", "")) @@
    ("PN" :> Entry("convert_PN", "")) @@
    ("LO" :> Entry("convert_string", "")) @@
    ("IS" :> Entry("convert_IS_string", "")) @@
    ("DS" :> Entry("convert_DS_string", "")) @@
    ("AE" :> Entry("convert_AE_string", "")) @@
    ("AS" :> Entry("convert_string", "")) @@
    ("LT" :> Entry("convert_single_string", "")) @@
    ("SQ" :> Entry("convert_SQ", "")) @@
    ("UC" :> Entry("convert_string", "")) @@
    ("UN" :> Entry("convert_UN", "")) @@
    ("UR" :> Entry("convert_UR_string", "")) @@
    ("AT" :> Entry("convert_ATvalue", "")) @@
    ("ST" :> Entry("convert_string", "")) @@
    ("OW" :> Entry("convert_OWvalue", "")) @@
    ("OW/OB" :> Entry("convert_OBvalue", "")) @@
    ("OB/OW" :> Entry("convert_OBvalue", "")) @@
    ("OW or OB" :> Entry("convert_OBvalue", "")) @@
    ("OB or OW" :> Entry("convert_OBvalue", "")) @@
    ("US or SS" :> Entry("convert_OWvalue", "")) @@
    ("US or OW" :> Entry("convert_OWvalue", "")) @@
    ("US or SS or OW" :> Entry("convert_OWvalue", "")) @@
    ("US\\US or SS\\US" :> Entry("convert_OWvalue", "")) @@
    ("DT" :> Entry("convert_DT_string", "")) @@
    ("UT" :> Entry("convert_single_string", ""))

\* converter(byte_string, is_little_endian, num_format) or, with a codec,
\* converter(byte_string, is_little_endian, encoding=codec)
Apply(converter, byte_string, is_little_endian, num_format, codec) ==
    CASE converter = "convert_numbers" ->
            convert_numbers(byte_string, is_little_endian, num_format)
      [] converter = "convert_OBvalue" ->
            convert_OBvalue(byte_string, is_little_endian, num_format)
      [] converter = "convert_OWvalue" ->
            convert_OWvalue(byte_string, is_little_endian, num_format)
      [] converter = "convert_UN" ->
            convert_UN(byte_string, is_little_endian, num_format)
      [] converter = "convert_UI" ->
            convert_UI(byte_string, is_little_endian, num_format)
      [] converter = "convert_string" ->
            convert_string(byte_string, is_little_endian, num_format, codec)
      [] converter = "convert_single_string" ->
            convert_single_string(byte_string, is_little_endian, num_format, codec)
      [] converter = "convert_AE_string" ->
            convert_AE_string(byte_string, is_little_endian, num_format, codec)
      [] converter = "convert_UR_string" ->
            convert_UR_string(byte_string, is_little_endian, num_format, codec)
      [] converter = "convert_DA_string" ->
            convert_DA_string(byte_string, is_little_endian, num_format)
      [] converter = "convert_DT_string" ->
            convert_DT_string(byte_string, is_little_endian, num_format)
      [] converter = "convert_TM_string" ->
            convert_TM_string(byte_string, is_little_endian, num_format)
      [] converter = "convert_IS_string" ->
            convert_IS_string(byte_string, is_little_endian, num_format)
      [] converter = "convert_DS_string" ->
            convert_DS_string(byte_string, is_little_endian, num_format)
      [] converter = "convert_ATvalue" ->
            convert_ATvalue(byte_string, is_little_endian, num_format)
      [] OTHER -> Raise("TypeError")

\* ------------------------------------------------------ convert_value
\* a bare codec name is broadcast to the three encoding slots
normalize(codec) == <<codec, codec, codec>>

\* the try block of convert_value: the primary conversion as vr
Dispatch(vr, element, codec) ==
    LET codecs == normalize(codec)
    IN IF vr \notin DOMAIN converters THEN Raise("KeyError")
       ELSE IF vr = "PN"
            THEN convert_PN(element.value, element.is_little_endian, "", codecs)
       ELSE IF vr \in text_VRs
            THEN Apply(converters[vr].converter, element.value,
                       element.is_little_endian, "", codecs[2])
       ELSE IF vr # "SQ"
            THEN Apply(converters[vr].converter, element.value,
                       element.is_little_endian, converters[vr].num_format,
                       default_encoding)
       ELSE convert_SQ(element.value, FALSE, element.is_little_endian, codecs, 0)


\* the registry test left out: every VR code is taken as registered
InRegistry_all(vr) == TRUE

InRegistry(vr) == vr \in DOMAIN converters

NewFrame(vr) == [VR |-> vr, pc |-> "lookup", idx |-> 0, out |-> Pending]

Done(f, o) == [f EXCEPT !.pc = "done", !.out = o]

\* `if VR not in converters: raise NotImplementedError`
AfterLookup(f) ==
    IF ~InRegistry(f.VR) THEN Done(f, Raise("NotImplementedError"))
    ELSE [f EXCEPT !.pc = "convert"]


\* the strict flag ignored: a validation failure always starts the retry
AfterPrimary_lenient(f, o) ==
    IF o.exc = "none" THEN Done(f, o)
    ELSE IF IsValueError(o.exc) THEN [f EXCEPT !.pc = "retry", !.idx = 1]
    ELSE Done(f, o)

\* `except Exception` in place of `except ValueError`
AfterPrimary_anyexc(f, o) ==
    IF o.exc = "none" THEN Done(f, o)
    ELSE IF config.enforce_valid_values THEN Done(f, o)
    ELSE [f EXCEPT !.pc = "retry", !.idx = 1]

\* the primary conversion returned or raised o: `except ValueError`
\* re-raises under config.enforce_valid_values and otherwise starts the
\* pass over convert_retry_VR_order; any other exception propagates.
AfterPrimary(f, o) ==
    IF o.exc = "none" THEN Done(f, o)
    ELSE IF IsValueError(o.exc)
         THEN IF config.enforce_valid_values THEN Done(f, o)
              ELSE [f EXCEPT !.pc = "retry", !.idx = 1]
    ELSE Done(f, o)


\* the self-retry test left out
SkipAlternate_never(vr, f) == FALSE

\* `if vr == VR: continue`
SkipAlternate(vr, f) == vr = f.VR


\* the `break` left out: the loop goes on after a successful alternate
AfterAlternate_nobreak(f, o) == [f EXCEPT !.idx = f.idx + 1]

\* the inner try/except left out: a failing alternate ends the call
AfterAlternate_noexcept(f, o) == Done(f, [o EXCEPT !.how = "alternate"])

\* the recursive convert_value(vr, ...) of the retry loop ended with o:
\* a value breaks out of the loop, `except Exception: pass` goes on.
AfterAlternate(f, o) ==
    IF o.exc = "none" THEN Done(f, [o EXCEPT !.how = "alternate"])
    ELSE [f EXCEPT !.idx = f.idx + 1]

\* the for-else: no alternate succeeded, the raw bytes are the value
Exhausted(f) ==
    Done(f, [Ok(Scalar("bytes", raw_data_element.value)) EXCEPT !.how = "exhausted"])

Top == stack[Len(stack)]

SetTop(f) == [stack EXCEPT ![Len(stack)] = f]

Lookup ==
    /\ stack # <<>>
    /\ Top.pc = "lookup"
    /\ stack' = SetTop(AfterLookup(Top))
    /\ nsteps' = nsteps + 1
    /\ UNCHANGED <<VR, raw_data_element, encoding, config, in_py2, collab,
                   result, trace>>

Convert ==
    /\ stack # <<>>
    /\ Top.pc = "convert"
    /\ stack' = SetTop(AfterPrimary(Top, Dispatch(Top.VR, raw_data_element, encoding)))
    /\ trace' = Append(trace, [VR |-> Top.VR, depth |-> Len(stack)])
    /\ nsteps' = nsteps + 1
    /\ UNCHANGED <<VR, raw_data_element, encoding, config, in_py2, collab, result>>

RetryLoop ==
    /\ stack # <<>>
    /\ Top.pc = "retry"
    /\ IF Top.idx > Len(convert_retry_VR_order)
       THEN stack' = SetTop(Exhausted(Top))
       ELSE IF SkipAlternate(convert_retry_VR_order[Top.idx], Top)
            THEN stack' = SetTop([Top EXCEPT !.idx = Top.idx + 1])
       ELSE /\ Len(stack) < MaxDepth
            /\ stack' = Append(stack, NewFrame(convert_retry_VR_order[Top.idx]))
    /\ nsteps' = nsteps + 1
    /\ UNCHANGED <<VR, raw_data_element, encoding, config, in_py2, collab,
                   result, trace>>

Return ==
    /\ stack # <<>>
    /\ Top.pc = "done"
    /\ IF Len(stack) = 1
       THEN /\ result' = Top.out
            /\ stack' = <<>>
       ELSE /\ result' = result
            /\ stack' = [SubSeq(stack, 1, Len(stack) - 1) EXCEPT
                            ![Len(stack) - 1] =
                                AfterAlternate(stack[Len(stack) - 1], Top.out)]
    /\ nsteps' = nsteps + 1
    /\ UNCHANGED <<VR, raw_data_element, encoding, config, in_py2, collab, trace>>

\* ------------------------------------------------------------- inputs
Bytes == {49, 92, 255}

SeqsUpTo(S, n) == UNION {[1..k -> S] : k \in 0..n}

Codecs == {"iso8859", "utf-8", "no-such-codec"}

UnregisteredVRs == {"OV", "XX"}

DatetimeVRs == {"DA", "DT", "TM"}

\* the VRs whose conversion calls a constructor outside values.py; collab
\* is read by no other conversion, config.datetime_conversion only by the
\* DatetimeVRs, and under python 2 no converter reads the codec
CollabVRs == {"UI", "DA", "DT", "TM", "PN", "SQ"}

Init ==
    /\ VR \in DOMAIN converters \cup UnregisteredVRs
    /\ raw_data_element \in [value : SeqsUpTo(Bytes, MaxLen), is_little_endian : BOOLEAN]
    /\ encoding \in Codecs
    /\ config \in [enforce_valid_values : BOOLEAN, datetime_conversion : BOOLEAN]
    /\ VR \notin DatetimeVRs => config.datetime_conversion
    /\ in_py2 \in BOOLEAN
    /\ in_py2 => encoding = default_encoding
    /\ collab \in {"none", "ValueError", "TypeError"}
    /\ VR \notin CollabVRs => collab = "none"
    /\ stack = <<NewFrame(VR)>>
    /\ result = Pending
    /\ trace = <<>>
    /\ nsteps = 0

Next == Lookup \/ Convert \/ RetryLoop \/ Return

Spec == Init /\ [][Next]_vars

\* ------------------------------- the primitive converters called directly
NumericVRs == {"UL", "SL", "US", "SS", "FL", "FD", "OF"}

ConvBytes == {0, 32, 92}

CallNumbers ==
    /\ stack = <<>>
    /\ result = Pending
    /\ VR \in NumericVRs
    /\ result' = convert_numbers(raw_data_element.value,
                                 raw_data_element.is_little_endian,
                                 converters[VR].num_format)
    /\ trace' = <<[VR |-> VR, depth |-> 0]>>
    /\ nsteps' = nsteps + 1
    /\ UNCHANGED <<VR, raw_data_element, encoding, config, in_py2, collab, stack>>

CallAT ==
    /\ stack = <<>>
    /\ result = Pending
    /\ VR = "AT"
    /\ result' = convert_ATvalue(raw_data_element.value,
                                 raw_data_element.is_little_endian, "")
    /\ trace' = <<[VR |-> VR, depth |-> 0]>>
    /\ nsteps' = nsteps + 1
    /\ UNCHANGED <<VR, raw_data_element, encoding, config, in_py2, collab, stack>>

CallPN ==
    /\ stack = <<>>
    /\ result = Pending
    /\ VR = "PN"
    /\ result' = convert_PN(raw_data_element.value,
                            raw_data_element.is_little_endian, "",
                            normalize(encoding))
    /\ trace' = <<[VR |-> VR, depth |-> 0]>>
    /\ nsteps' = nsteps + 1
    /\ UNCHANGED <<VR, raw_data_element, encoding, config, in_py2, collab, stack>>

InitConv ==
    /\ VR \in NumericVRs \cup {"AT", "PN"}
    /\ raw_data_element \in [value : SeqsUpTo(ConvBytes, MaxConvLen),
                             is_little_endian : BOOLEAN]
    /\ VR = "PN" => raw_data_element.is_little_endian
    /\ encoding = default_encoding
    /\ config = [enforce_valid_values |-> FALSE, datetime_conversion |-> TRUE]
    /\ in_py2 \in BOOLEAN
    /\ collab \in {"none", "ValueError", "TypeError"}
    /\ VR # "PN" => collab = "none"
    /\ stack = <<>>
    /\ result = Pending
    /\ trace = <<>>
    /\ nsteps = 0

NextConv == CallNumbers \/ CallAT \/ CallPN

SpecConv == InitConv /\ [][NextConv]_vars

\* ------------------------------------------------ convert_value_num_str
\* the character class of the regex: r'[ \\0-9\.+-]*\Z' for IS,
\* r'[ \\0-9\.+eE-]*\Z' otherwise
InRegexClass(vr, c) ==
    \/ c \in {32, 92, 46, 43, 45}
    \/ c \in 48..57
    \/ vr # "IS" /\ c \in {101, 69}

\* re.match(regex, num_str): the class, repeated, up to the end of the text
RegexMatches(vr, num_str) == \A i \in 1..Len(num_str) : InRegexClass(vr, num_str[i])

\* re.sub(regex[:-2], '', num_str): every run of class characters removed
RegexResidue(vr, num_str) ==
    LET outside(c) == ~InRegexClass(vr, c) IN SelectSeq(num_str, outside)

\* numpy.fromstring(num_str, dtype, sep='\\'): one number per part
numpy_fromstring(vr, num_str) ==
    [kind |-> "ndarray", type |-> IF vr = "IS" THEN "i8" ELSE "f8",
     items |-> split(num_str, 92)]

convert_value_num_str(vr, element, codec) ==
    LET d == codec_decode(element.value, codec)
        value == numpy_fromstring(vr, d.text)
    IN IF d.exc # "none" THEN Raise(d.exc)
       ELSE IF ~RegexMatches(vr, d.text)
            THEN RaiseMsg("ValueError", RegexResidue(vr, d.text))
       ELSE IF Len(value.items) = 1 THEN Ok(Scalar(value.type, value.items[1]))
       ELSE Ok(value)

NumStrChars == {49, 92, 43, 45, 46, 101, 69, 32, 88}

CallNumStr ==
    /\ stack = <<>>
    /\ result = Pending
    /\ result' = convert_value_num_str(VR, raw_data_element, encoding)
    /\ trace' = <<[VR |-> VR, depth |-> 0]>>
    /\ nsteps' = nsteps + 1
    /\ UNCHANGED <<VR, raw_data_element, encoding, config, in_py2, collab, stack>>

InitNumStr ==
    /\ VR \in {"IS", "DS"}
    /\ raw_data_element \in [value : SeqsUpTo(NumStrChars, MaxStrLen),
                             is_little_endian : {TRUE}]
    /\ encoding = default_encoding
    /\ config = [enforce_valid_values |-> FALSE, datetime_conversion |-> TRUE]
    /\ in_py2 = FALSE
    /\ collab = "none"
    /\ stack = <<>>
    /\ result = Pending
    /\ trace = <<>>
    /\ nsteps = 0

NextNumStr == CallNumStr

SpecNumStr == InitNumStr /\ [][NextNumStr]_vars

\* ============================================================= claims
Terminated == stack = <<>> /\ result # Pending

\* decoding the payload directly as vr: the primary conversion alone
Direct(vr) == Dispatch(vr, raw_data_element, encoding)

\* the call is lenient and its primary conversion fails validation
LenientFailure ==
    /\ VR \in DOMAIN converters
    /\ ~config.enforce_valid_values
    /\ IsValueError(Direct(VR).exc)

\* positions in the retry order, other than VR, whose direct decode succeeds
DirectlyDecodable ==
    {i \in 1..Len(convert_retry_VR_order) :
        /\ convert_retry_VR_order[i] # VR
        /\ Direct(convert_retry_VR_order[i]).exc = "none"}

FirstDecodable ==
    convert_retry_VR_order[CHOOSE i \in DirectlyDecodable :
                               \A j \in DirectlyDecodable : i <= j]

NestedPassSeen == \E i \in 1..Len(trace) : trace[i].depth >= 3

\* C1: in lenient mode, when the primary conversion as VR fails validation,
\* convert_value returns exactly the value of decoding the payload directly
\* as the first VR of convert_retry_VR_order, other than VR, whose direct
\* decode succeeds.
C1_RetryReturnsFirstDecodable ==
    (Terminated /\ LenientFailure) =>
        /\ DirectlyDecodable # {}
        /\ result.exc = "none"
        /\ result.value = Direct(FirstDecodable).value

C1_Witness ==
    /\ Terminated
    /\ LenientFailure
    /\ NestedPassSeen
    /\ FirstDecodable = "US"
    /\ result.value = Direct("US").value

\* C2: in strict mode a validation failure of the primary converter
\* reaches the caller as that same failure, and no alternate VR is tried.
C2_StrictPropagates ==
    (VR \in DOMAIN converters /\ config.enforce_valid_values
        /\ IsValueError(Direct(VR).exc)) =>
        /\ Len(stack) <= 1
        /\ \A i \in 1..Len(trace) : trace[i] = [VR |-> VR, depth |-> 1]
        /\ Len(trace) <= 1
        /\ Terminated => (result = Direct(VR) /\ Len(trace) = 1)

C2_Witness ==
    /\ Terminated
    /\ config.enforce_valid_values
    /\ VR = "IS"
    /\ result.exc = "ValueError"
    /\ trace = <<[VR |-> "IS", depth |-> 1]>>

\* C3: for the numeric VRs and AT a payload whose length is no multiple of
\* the element width never makes convert_value fail: a value is returned.
C3_LengthMismatchNeverFails ==
    (/\ Terminated
     /\ VR \in NumericVRs \cup {"AT"}
     /\ Len(raw_data_element.value) %
            (IF VR = "AT" THEN 4 ELSE calcsize(converters[VR].num_format)) # 0)
    => result.exc = "none"

\* C4: a VR code absent from the registry always ends in the unsupported-VR
\* error, in strict and lenient mode, with no converter invoked and no
\* retry pass started.
C4_UnsupportedAlwaysFails ==
    VR \in UnregisteredVRs =>
        /\ trace = <<>>
        /\ Len(stack) <= 1
        /\ \A k \in 1..Len(stack) : stack[k].pc # "retry" /\ stack[k].pc # "convert"
        /\ Terminated => result = Raise("NotImplementedError")

C4_Witness ==
    /\ Terminated
    /\ VR \in UnregisteredVRs
    /\ ~config.enforce_valid_values
    /\ result.exc = "NotImplementedError"

\* C5: in lenient mode, after the primary conversion as VR failed, no later
\* conversion attempt is made with VR, nested retry passes included.
C5_NoSelfRetry ==
    ~config.enforce_valid_values =>
        \A i \in 2..Len(trace) : trace[i].VR # VR

C5_Witness ==
    /\ Terminated
    /\ ~config.enforce_valid_values
    /\ VR = "DS"
    /\ \E i \in 1..Len(trace) : trace[i].depth = 3 /\ trace[i].VR = "UL"
    /\ \A i \in 2..Len(trace) : trace[i].VR # VR

\* C6: convert_value_num_str accepts, for IS, digits, backslash and signs
\* only, for DS also the decimal point and e/E; any other character raises
\* a validation failure reporting exactly the characters outside.
ClaimedRepertoire(vr, c) ==
    \/ c \in 48..57
    \/ c \in {92, 43, 45}
    \/ vr = "DS" /\ c \in {46, 101, 69}

ClaimedResidue(vr, text) ==
    LET outside(c) == ~ClaimedRepertoire(vr, c) IN SelectSeq(text, outside)

C6_RepertoireAsClaimed ==
    (result # Pending /\ ClaimedResidue(VR, raw_data_element.value) # <<>>) =>
        /\ result.exc = "ValueError"
        /\ result.msg = ClaimedResidue(VR, raw_data_element.value)

\* C7: singleton collapse.  No value of convert_numbers, convert_ATvalue or
\* convert_PN is a container of exactly one element; N x width numeric
\* bytes give '' for N = 0, the scalar for N = 1, the N values in stream
\* order for N >= 2; 4 AT bytes give one tag, 8 give two; a person name
\* without delimiter gives a single name.
StreamWord(k, w) ==
    LET raw == SubSeq(raw_data_element.value, (k - 1) * w + 1, k * w)
    IN IF raw_data_element.is_little_endian THEN Reverse(raw) ELSE raw

StreamTag(k) ==
    LET b == SubSeq(raw_data_element.value, (k - 1) * 4 + 1, k * 4)
    IN IF raw_data_element.is_little_endian
       THEN <<b[2], b[1], b[4], b[3]>> ELSE b

C7_SingletonCollapse ==
    LET v == result.value
        n == Len(raw_data_element.value)
    IN result # Pending =>
        /\ result.exc = "none" =>
              ~(v.kind \in {"MultiValue", "list", "ndarray"} /\ Len(v.items) = 1)
        /\ VR \in NumericVRs =>
              LET fmt == converters[VR].num_format
                  w == calcsize(fmt)
              IN n % w = 0 =>
                   /\ result.exc = "none"
                   /\ n = 0 => v = Scalar(TextType, <<>>)
                   /\ n = w => v = Scalar(fmt, StreamWord(1, w))
                   /\ n >= 2 * w =>
                         /\ v.kind = "list"
                         /\ Len(v.items) = n \div w
                         /\ \A k \in 1..(n \div w) : v.items[k] = StreamWord(k, w)
        /\ (VR = "AT" /\ n = 4) => v = Scalar("Tag", StreamTag(1))
        /\ (VR = "AT" /\ n = 8) =>
              /\ v.kind = "MultiValue"
              /\ v.items = <<StreamTag(1), StreamTag(2)>>
        /\ (VR = "PN" /\ result.exc = "none"
               /\ \A i \in 1..n : raw_data_element.value[i] # 92) =>
              (v.kind = "scalar" /\ v.type = "PersonName")

C7_Witness ==
    /\ result # Pending
    /\ VR = "UL"
    /\ Len(raw_data_element.value) = 4
    /\ ~raw_data_element.is_little_endian
    /\ result.value = Scalar("L", raw_data_element.value)
    /\ raw_data_element.value[1] # raw_data_element.value[4]

\* C8: for the opaque VRs and every ambiguous alias convert_value returns
\* the raw payload unchanged, for either byte order and in either mode, and
\* never fails.
OpaqueVRs == {"OB", "OD", "OL", "OW", "UN"}

AliasVRs == {"OW/OB", "OB/OW", "OW or OB", "OB or OW", "US or SS", "US or OW",
             "US or SS or OW", "US\\US or SS\\US"}

C8_OpaqueUnchanged ==
    VR \in OpaqueVRs \cup AliasVRs =>
        /\ Len(stack) <= 1
        /\ Terminated =>
              /\ result.exc = "none"
              /\ result.how = "primary"
              /\ result.value = Scalar("bytes", raw_data_element.value)

C8_Witness ==
    /\ Terminated
    /\ VR = "US\\US or SS\\US"
    /\ ~raw_data_element.is_little_endian
    /\ config.enforce_valid_values
    /\ Len(raw_data_element.value) = 2
    /\ raw_data_element.value[1] # raw_data_element.value[2]
    /\ result.value = Scalar("bytes", raw_data_element.value)

\* C9 as stated: every call terminates, no call makes more than one pass,
\* and the nesting never exceeds one level beyond the original call (a
\* call made for an alternate VR never starts a retry pass of its own).
C9_OneExtraLevel ==
    /\ Len(stack) <= 2
    /\ \A k \in 2..Len(stack) : stack[k].pc # "retry"

\* two passes at most (the original call's and SH's), each of at most
\* Len(order) alternates of four steps, and three steps of the call itself
StepBound == 2 * (3 + 4 * Len(convert_retry_VR_order))

\* a call in progress can take its next step: every pc has an action, and
\* the only guard that can block one is the depth the model follows
CanStep ==
    /\ Top.pc \in {"lookup", "convert", "retry", "done"}
    /\ Len(stack) < MaxDepth

\* C9, amended: every call terminates, no call makes more than one pass,
\* and the nesting never exceeds two levels beyond the original call: only
\* the call made for the alternate SH can start a retry pass of its own,
\* and the calls made within that pass start none.
C9_TwoExtraLevels ==
    /\ Len(stack) <= 3
    /\ \A k \in 1..Len(stack) :
          /\ stack[k].idx <= Len(convert_retry_VR_order) + 1
          /\ (k = 2 /\ stack[k].pc = "retry") => stack[k].VR = "SH"
          /\ k >= 3 => stack[k].pc # "retry"
    /\ \A i \in 1..Len(trace) : \A j \in 1..Len(trace) :
          (i < j /\ trace[i].depth = trace[j].depth /\ trace[i].VR = trace[j].VR)
              => \E m \in (i + 1)..(j - 1) : trace[m].depth < trace[i].depth
    /\ nsteps <= StepBound
    /\ stack # <<>> => CanStep

C9_Witness ==
    /\ Terminated
    /\ VR = "IS"
    /\ encoding = "utf-8"
    /\ \E i \in 1..Len(trace) : trace[i].depth = 3
    /\ result.how = "alternate"

\* C10: in lenient mode every retry pass ends at or before the alternate
\* OB: no VR placed after OB in convert_retry_VR_order is ever attempted in
\* a retry, and the for-else (return the raw bytes) is never taken.
UpToOB == {"SH", "UL", "SL", "US", "SS", "FL", "FD", "OF", "OB"}

C10_PassEndsAtOB ==
    /\ \A i \in 1..Len(trace) : trace[i].depth >= 2 => trace[i].VR \in UpToOB
    /\ \A k \in 2..Len(stack) : stack[k].VR \in UpToOB
    /\ \A k \in 1..Len(stack) :
          /\ stack[k].out.how # "exhausted"
          /\ stack[k].pc = "retry" => stack[k].idx <= 9
    /\ result.how # "exhausted"

C10_Witness ==
    /\ Terminated
    /\ LenientFailure
    /\ result.how = "alternate"
    /\ trace[Len(trace)].VR = "OB"
    /\ result.value = Scalar("bytes", raw_data_element.value)
====
